---- MODULE Spec2Model ----
(***************************************************************************)
(* A model of docs/src/components/NebariSchemaLoader/index.tsx.            *)
(*                                                                         *)
(* The file holds two variants of the component.  Variant 1 (lines 1-315)  *)
(* has useSchema(schemaUrl, useLocal), SchemaToc, PropertiesList,          *)
(* mergeAllOf, MarkdownCodeSeparator/parseContent and PropertyContent.     *)
(* Variant 2 (lines 317-439) has a smaller useSchema(schemaUrl),           *)
(* SchemaToc and PropertiesList.                                           *)
(*                                                                         *)
(* Four specifications share the module's variables:                       *)
(*   Spec         the schema loader (useSchema and what NebariConfig       *)
(*                renders from its state), both variants;                  *)
(*   SpecFlatten  mergeAllOf applied to a bounded set of properties;       *)
(*   SpecRender   SchemaToc and PropertiesList over a bounded schema;      *)
(*   SpecExamples PropertyContent's examples block, MarkdownCodeSeparator  *)
(*                and parseContent.                                        *)
(***************************************************************************)
EXTENDS FiniteSets, Integers, Sequences, TLC

(***************************************************************************)
(* JavaScript values.  A value that may be null or undefined is kept as a  *)
(* set with at most one element: Null is null/undefined, Some(x) is x.     *)
(***************************************************************************)
Null == {}

Some(x) == {x}

Get(o) == CHOOSE x \in o : TRUE

Min(S) == CHOOSE x \in S : \A y \in S : x <= y

Max(S) == CHOOSE x \in S : \A y \in S : y <= x

SeqsUpTo(S, n) == UNION {[1..k -> S] : k \in 0..n}

VARIABLES
    variant,      \* which useSchema of the file runs: 1 (l.47) or 2 (l.355)
    useLocal,     \* useSchema's second parameter (variant 1 only)
    bound,        \* whether the free identifier JSONSchema is bound (see below)
    pc,           \* position of the effect / of fetchSchema
    schema,       \* useState<Schema>(defaultSchema)
    loading,      \* useState(true)
    error,        \* useState<string | null>(null)
    response,     \* the Response the fetch resolved to, Null before
    json,         \* the value response.json() resolved to, Null before
    uncaught,     \* failures that left useSchema uncaught
    err,          \* the failure the catch clause of fetchSchema received
    logged,       \* arguments of console.error calls
    renders,      \* what NebariConfig returned, one entry per render
    property,     \* mergeAllOf: the property given
    flat,         \* mergeAllOf(property), Null before the call
    again,        \* mergeAllOf of that result, Null before the call
    properties,   \* schema.properties handed to SchemaToc and PropertiesList
    toc,          \* SchemaToc: the keys of its <li> elements, in order
    sections,     \* PropertiesList: its elements, in order
    examples,     \* property.examples handed to PropertyContent
    block         \* what PropertyContent rendered for the examples

loaderVars ==
    <<variant, useLocal, bound, pc, schema, loading, error, response, json,
      uncaught, err, logged, renders>>

flatVars == <<property, flat, again>>

renderVars == <<properties, toc, sections>>

exampleVars == <<examples, block>>

vars == <<loaderVars, flatVars, renderVars, exampleVars>>

(***************************************************************************)
(* The schema loader.                                                      *)
(***************************************************************************)

\* Raw documents a server (or the static file) may hold.
RawDocs == {"docA", "docB"}

\* The document behind the identifier JSONSchema.  Line 55 reads it, and the
\* import that would bind it is a comment (line 10): the identifier is free
\* in the module, so reading it gives the value the global scope binds to it
\* or throws a ReferenceError.  The model takes both outcomes.
JSONSchema == "docLocal"

\* resolver.resolve(doc, {}) fulfilled: resolvedSchema.result.
Resolved(doc) == <<"resolved", doc>>

defaultSchema(v) ==
    IF v = 1 THEN <<"ConfigSchema", "no properties">>
    ELSE <<"Nebari Configuration", "deprecated">>

Statuses == {200, 404, 429, 500}

\* Number to string, as the template literal of line 65 converts it.
StatusString(s) ==
    CASE s = 200 -> "200"
      [] s = 404 -> "404"
      [] s = 429 -> "429"
      [] s = 500 -> "500"

statusText(s) ==
    CASE s = 200 -> "OK"
      [] s = 404 -> "Not Found"
      [] s = 429 -> "Too Many Requests"
      [] s = 500 -> "Internal Server Error"

\* Response.ok: the status is in the range 200-299.
ok(r) == r.status >= 200 /\ r.status <= 299

\* A response body: a JSON text holding a document, or a text that is no JSON.
Bodies == {<<"json", d>> : d \in RawDocs} \cup {<<"text">>}

Responses == [status : Statuses, body : Bodies]

\* Messages of the failures, as sequences of words.
FetchFailure == <<"Failed", "to", "fetch">>

ParseFailure == <<"Unexpected", "token">>

ResolveFailures == {<<"Cannot", "resolve", "pointer">>, <<"Circular", "reference">>}

ReferenceFailure == <<"JSONSchema", "is", "not", "defined">>

\* The template literal of line 65.
HttpFailure(r) ==
    <<"Failed", "to", "fetch", "schema:", StatusString(r.status), statusText(r.status)>>

\* NebariConfig: what the component returns for a state of the hook.
NebariConfig(s, l, e) ==
    IF l THEN <<"Loading">>
    ELSE IF e # Null THEN <<"Error", Get(e)>>
    ELSE <<"Ready", s>>

\* React renders again when a state setter changed the state.
Rerender(s, l, e) ==
    IF <<s, l, e>> = <<schema, loading, error>> THEN renders
    ELSE Append(renders, NebariConfig(s, l, e))

setSchema(s) ==
    /\ schema' = s
    /\ renders' = Rerender(s, loading, error)
    /\ UNCHANGED <<loading, error>>

setError(e) ==
    /\ error' = e
    /\ renders' = Rerender(schema, loading, e)
    /\ UNCHANGED <<schema, loading>>

setLoading(l) ==
    /\ loading' = l
    /\ renders' = Rerender(schema, l, error)
    /\ UNCHANGED <<schema, error>>

\* catch (err) of fetchSchema: variant 1 logs, both set the error.
Catch(msg) ==
    /\ err' = Some(msg)
    /\ logged' = IF variant = 1 THEN Append(logged, msg) ELSE logged
    /\ setError(Some(msg))
    /\ pc' = "finally"

InitLoader ==
    /\ variant \in {1, 2}
    /\ useLocal \in BOOLEAN
    /\ variant = 2 => ~useLocal
    /\ bound \in BOOLEAN
    /\ ~useLocal => bound
    /\ pc = "effect"
    /\ schema = defaultSchema(variant)
    /\ loading = TRUE
    /\ error = Null
    /\ response = Null
    /\ json = Null
    /\ uncaught = {}
    /\ err = Null
    /\ logged = <<>>
    /\ renders = <<NebariConfig(defaultSchema(variant), TRUE, Null)>>

\* The effect, useLocal branch, when evaluating JSONSchema throws: nothing
\* after resolver.resolve(JSONSchema, {}) runs.
EffectLocalUnbound ==
    /\ pc = "effect" /\ useLocal /\ ~bound
    /\ uncaught' = uncaught \cup {ReferenceFailure}
    /\ pc' = "done"
    /\ UNCHANGED <<variant, useLocal, bound, schema, loading, error, response,
                   json, err, logged, renders>>
    /\ UNCHANGED <<flatVars, renderVars, exampleVars>>

\* The effect, useLocal branch: the promise of resolve().then() is left
\* pending, then setLoading(false) and setError(null).
EffectLocalLoading ==
    /\ pc = "effect" /\ useLocal /\ bound
    /\ setLoading(FALSE)
    /\ pc' = "localSetError"
    /\ UNCHANGED <<variant, useLocal, bound, response, json, uncaught, err, logged>>
    /\ UNCHANGED <<flatVars, renderVars, exampleVars>>

EffectLocalError ==
    /\ pc = "localSetError"
    /\ setError(Null)
    /\ pc' = "localPending"
    /\ UNCHANGED <<variant, useLocal, bound, response, json, uncaught, err, logged>>
    /\ UNCHANGED <<flatVars, renderVars, exampleVars>>

\* resolver.resolve(JSONSchema, {}) fulfils: the then-callback stores it.
LocalResolved ==
    /\ pc = "localPending"
    /\ setSchema(Resolved(JSONSchema))
    /\ pc' = "done"
    /\ UNCHANGED <<variant, useLocal, bound, response, json, uncaught, err, logged>>
    /\ UNCHANGED <<flatVars, renderVars, exampleVars>>

\* resolver.resolve(JSONSchema, {}) rejects: the chain has no catch.
LocalRejected ==
    /\ pc = "localPending"
    /\ \E msg \in ResolveFailures : uncaught' = uncaught \cup {msg}
    /\ pc' = "done"
    /\ UNCHANGED <<variant, useLocal, bound, schema, loading, error, response,
                   json, err, logged, renders>>
    /\ UNCHANGED <<flatVars, renderVars, exampleVars>>

\* The effect, fetch branch: fetchSchema() runs up to its first await.
EffectFetch ==
    /\ pc = "effect" /\ ~useLocal
    /\ pc' = "awaitFetch"
    /\ UNCHANGED <<variant, useLocal, bound, schema, loading, error, response,
                   json, uncaught, err, logged, renders>>
    /\ UNCHANGED <<flatVars, renderVars, exampleVars>>

\* fetch() rejects: a transport failure.
FetchRejected ==
    /\ pc = "awaitFetch"
    /\ Catch(FetchFailure)
    /\ UNCHANGED <<variant, useLocal, bound, response, json, uncaught>>
    /\ UNCHANGED <<flatVars, renderVars, exampleVars>>

\* fetch() fulfils with a response.  Variant 1 throws on !response.ok;
\* variant 2 has no such test and goes on to response.json().
FetchFulfilled ==
    /\ pc = "awaitFetch"
    /\ \E r \in Responses :
         /\ response' = Some(r)
         /\ IF variant = 1 /\ ~ok(r)
              THEN Catch(HttpFailure(r))
              ELSE /\ pc' = "awaitJson"
                   /\ UNCHANGED <<schema, loading, error, err, logged, renders>>
    /\ UNCHANGED <<variant, useLocal, bound, json, uncaught>>
    /\ UNCHANGED <<flatVars, renderVars, exampleVars>>

\* response.json() rejects: the body is no JSON.
JsonRejected ==
    /\ pc = "awaitJson"
    /\ Get(response).body[1] = "text"
    /\ Catch(ParseFailure)
    /\ UNCHANGED <<variant, useLocal, bound, response, json, uncaught>>
    /\ UNCHANGED <<flatVars, renderVars, exampleVars>>

\* response.json() fulfils with the parsed body.
JsonFulfilled ==
    /\ pc = "awaitJson"
    /\ Get(response).body[1] = "json"
    /\ json' = Some(Get(response).body[2])
    /\ pc' = "awaitResolve"
    /\ UNCHANGED <<variant, useLocal, bound, schema, loading, error, response,
                   uncaught, err, logged, renders>>
    /\ UNCHANGED <<flatVars, renderVars, exampleVars>>

\* resolver.resolve(json, {}) fulfils: setSchema(resolvedSchema.result).
ResolveFulfilled ==
    /\ pc = "awaitResolve"
    /\ setSchema(Resolved(Get(json)))
    /\ pc' = "finally"
    /\ UNCHANGED <<variant, useLocal, bound, response, json, uncaught, err, logged>>
    /\ UNCHANGED <<flatVars, renderVars, exampleVars>>

\* resolver.resolve(json, {}) rejects.
ResolveRejected ==
    /\ pc = "awaitResolve"
    /\ \E msg \in ResolveFailures : Catch(msg)
    /\ UNCHANGED <<variant, useLocal, bound, response, json, uncaught>>
    /\ UNCHANGED <<flatVars, renderVars, exampleVars>>

\* finally { setLoading(false) }
Finally ==
    /\ pc = "finally"
    /\ setLoading(FALSE)
    /\ pc' = "done"
    /\ UNCHANGED <<variant, useLocal, bound, response, json, uncaught, err, logged>>
    /\ UNCHANGED <<flatVars, renderVars, exampleVars>>

(***************************************************************************)
(* Schema properties.  A SchemaProperty is a function from the names of    *)
(* the fields it has to their values.  The value of "properties" is a      *)
(* sequence of <<key, property>> entries in the insertion order of the     *)
(* keys (the order Object.entries gives for keys that are no integers);    *)
(* the value of "allOf" is Some(sequence of fragments), or Null when the   *)
(* field is there with the value undefined.                                *)
(***************************************************************************)

\* The object without any field, {}.
Empty == <<>>

\* { ...a, ...b } for two objects.
Spread(a, b) ==
    [k \in DOMAIN a \cup DOMAIN b |-> IF k \in DOMAIN b THEN b[k] ELSE a[k]]

KeysOf(m) == {m[i][1] : i \in DOMAIN m}

At(m, k) == m[CHOOSE i \in DOMAIN m : m[i][1] = k][2]

\* { ...a, ...b } for two properties maps: the keys of a keep their place and
\* take b's value where b has the key, the other keys of b follow in b's order.
SpreadMap(a, b) ==
    [i \in DOMAIN a |->
        IF a[i][1] \in KeysOf(b) THEN <<a[i][1], At(b, a[i][1])>> ELSE a[i]]
    \o SelectSeq(b, LAMBDA e : e[1] \notin KeysOf(a))

\* o.properties inside a spread: spreading undefined gives no key.
propertiesOf(o) == IF "properties" \in DOMAIN o THEN o.properties ELSE <<>>

\* property.allOf is truthy: the field is there and is an array (an empty
\* array is truthy too).
hasAllOf(o) == "allOf" \in DOMAIN o /\ o.allOf # Null

RECURSIVE mergeAllOf(_), reduce(_, _)

\* A base that keeps the allOf field of the property.
baseKeepsAllOf(p) == p

\* const base = { ...property, allOf: undefined }
base(p) == Spread(p, [allOf |-> Null])

\* A callback that spreads the accumulator over the fragment.
mergeFirstWins(acc, cur) ==
    Spread(Spread(mergeAllOf(cur), acc),
           [properties |-> SpreadMap(propertiesOf(acc), propertiesOf(cur))])

\* The callback of reduce, lines 172-176.
merge(acc, cur) ==
    Spread(Spread(acc, mergeAllOf(cur)),
           [properties |-> SpreadMap(propertiesOf(acc), propertiesOf(cur))])

\* Array.prototype.reduce(callback, initial value), left to right.
reduce(allOf, acc) ==
    IF allOf = <<>> THEN acc ELSE reduce(Tail(allOf), merge(acc, Head(allOf)))

mergeAllOf(p) ==
    IF ~hasAllOf(p) THEN p ELSE reduce(Get(p.allOf), base(p))

(***************************************************************************)
(* The properties mergeAllOf is applied to.                                *)
(***************************************************************************)

\* The longest allOf array of the property given.
MaxFragments == 2

X == [type |-> "string"]

Y == [type |-> "number"]

Scalars == {Empty, [type |-> "string"], [type |-> "number", default |-> 1]}

PropertyMaps == {<< <<"a", X>> >>, << <<"a", Y>> >>, << <<"b", Y>> >>}

\* Properties without allOf.
Leaves ==
    {Spread(s, m) : s \in Scalars,
                    m \in {Empty} \cup {[properties |-> pm] : pm \in PropertyMaps}}

\* Fragments: a leaf, or a fragment that has an allOf of its own.
Fragments == Leaves \cup {[allOf |-> Some(<<l>>)] : l \in Leaves}

Owns ==
    {Spread(s, m) : s \in {Empty, [type |-> "string"]},
                    m \in {Empty, [properties |-> << <<"a", X>> >>]}}

Inputs ==
    Owns \cup {Spread(o, [allOf |-> Some(fs)]) :
                   o \in Owns, fs \in SeqsUpTo(Fragments, MaxFragments)}

InitFlatten ==
    variant = 1 /\ property \in Inputs /\ flat = Null /\ again = Null

\* mergeAllOf(property)
Flatten ==
    /\ flat = Null
    /\ flat' = Some(mergeAllOf(property))
    /\ UNCHANGED <<property, again>>
    /\ UNCHANGED <<loaderVars, renderVars, exampleVars>>

\* mergeAllOf of what mergeAllOf returned
FlattenAgain ==
    /\ flat # Null /\ again = Null
    /\ again' = Some(mergeAllOf(Get(flat)))
    /\ UNCHANGED <<property, flat>>
    /\ UNCHANGED <<loaderVars, renderVars, exampleVars>>

NextFlatten == Flatten \/ FlattenAgain

(***************************************************************************)
(* Claims about mergeAllOf, checked under SpecFlatten.                     *)
(***************************************************************************)

ScalarFields ==
    {"type", "default", "enum", "description", "pattern", "optionsAre", "note",
     "title", "deprecated"}

Without(o, k) == [x \in DOMAIN o \ {k} |-> o[x]]

\* An object as JSON.stringify and a structural comparison see it: a field
\* whose value is undefined counts as no field.
Defined(o) ==
    IF "allOf" \in DOMAIN o /\ o.allOf = Null THEN Without(o, "allOf") ELSE o

\* The fragments of the property given, each one flattened.
Flattened == [i \in DOMAIN Get(property.allOf) |-> mergeAllOf(Get(property.allOf)[i])]

\* C4: the properties map of mergeAllOf(P) is the key-union of P's own
\* properties and the properties of every flattened fragment (keys a fragment
\* only has through its own nested allOf included); a key of several
\* fragments takes the entry of the latest one.
C4_PropertiesKeyUnion ==
    (flat # Null /\ hasAllOf(property)) =>
        LET R == propertiesOf(Get(flat))
            own == propertiesOf(property)
            F == [i \in DOMAIN Flattened |-> propertiesOf(Flattened[i])]
        IN /\ KeysOf(R) = KeysOf(own) \cup UNION {KeysOf(F[i]) : i \in DOMAIN F}
           /\ \A k \in KeysOf(R) :
                LET has == {i \in DOMAIN F : k \in KeysOf(F[i])}
                IN At(R, k) = IF has # {} THEN At(F[Max(has)], k) ELSE At(own, k)

\* C5: each scalar field of mergeAllOf(P) has the value of the last flattened
\* fragment that has the field, and P's own value when no fragment has it; a
\* fragment without the field erases nothing.
C5_ScalarLastFragmentWins ==
    (flat # Null /\ hasAllOf(property)) =>
        \A f \in ScalarFields :
            LET R == Get(flat)
                has == {i \in DOMAIN Flattened : f \in DOMAIN Flattened[i]}
            IN IF has # {}
                 THEN f \in DOMAIN R /\ R[f] = Flattened[Max(has)][f]
                 ELSE /\ f \in DOMAIN R <=> f \in DOMAIN property
                      /\ f \in DOMAIN property => R[f] = property[f]

\* P has a type of its own, the first fragment sets another type and a
\* default, the second fragment has neither: the result has the first
\* fragment's type and default.
C5_Witness ==
    /\ flat # Null /\ hasAllOf(property)
    /\ "type" \in DOMAIN property /\ property.type = "string"
    /\ Len(Get(property.allOf)) = 2
    /\ Get(property.allOf)[1] = [type |-> "number", default |-> 1]
    /\ DOMAIN Get(property.allOf)[2] = {"properties"}
    /\ Get(flat).type = "number" /\ Get(flat).default = 1

\* C6: mergeAllOf(P) = P when P has no allOf; with an empty allOf the result
\* is P without allOf, nothing added or changed; mergeAllOf of a result is
\* that result.
C6_IdentityAndIdempotent ==
    /\ (flat # Null /\ ~hasAllOf(property)) => Get(flat) = property
    /\ (flat # Null /\ hasAllOf(property) /\ Get(property.allOf) = <<>>) =>
           Defined(Get(flat)) = Without(property, "allOf")
    /\ again # Null => Get(again) = Get(flat)

\* mergeAllOf was applied twice to a property with two fragments, and the
\* first application changed it.
C6_Witness ==
    /\ again # Null /\ hasAllOf(property)
    /\ Len(Get(property.allOf)) = 2
    /\ Defined(Get(flat)) # Without(property, "allOf")
    /\ Get(again) = Get(flat)

(***************************************************************************)
(* SchemaToc and PropertiesList.                                           *)
(***************************************************************************)

\* The UTF-16 code units of the keys of the model.
CodeUnits(key) ==
    CASE key = "alpha" -> <<97, 108, 112, 104, 97>>
      [] key = "zeta" -> <<122, 101, 116, 97>>
      [] key = "a" -> <<97>>
      [] key = "b" -> <<98>>

\* String(value) of a plain object: "[object Object]".
ObjectObject == <<91, 111, 98, 106, 101, 99, 116, 32, 79, 98, 106, 101, 99, 116, 93>>

\* String([key, value]), the string Array.prototype.sort compares when it
\* is given no comparator: the elements joined with a comma (code unit 44).
StringOf(entry) == CodeUnits(entry[1]) \o <<44>> \o ObjectObject

\* s < t for two strings, by code units.
RECURSIVE Less(_, _)
Less(s, t) ==
    IF t = <<>> THEN FALSE
    ELSE IF s = <<>> THEN TRUE
    ELSE IF Head(s) # Head(t) THEN Head(s) < Head(t)
    ELSE Less(Tail(s), Tail(t))

\* entries.sort(): ascending by StringOf; the keys of an object differ, so no
\* two entries compare equal.
RECURSIVE sort(_)
sort(entries) ==
    IF entries = <<>> THEN <<>>
    ELSE LET m == CHOOSE i \in DOMAIN entries :
                     \A j \in DOMAIN entries \ {i} :
                         Less(StringOf(entries[i]), StringOf(entries[j]))
         IN <<entries[m]>>
            \o sort([i \in 1..(Len(entries) - 1) |->
                        IF i < m THEN entries[i] ELSE entries[i + 1]])

\* SchemaToc of both variants: one <li> per entry of the sorted entries.
SchemaToc(props) == [i \in DOMAIN props |-> sort(props)[i][1]]

\* value.allOf && value.allOf.length > 0 and then value.allOf[0].properties:
\* an object is truthy, an empty one too.
firstFragmentHasProperties(value) ==
    /\ hasAllOf(value)
    /\ Len(Get(value.allOf)) > 0
    /\ "properties" \in DOMAIN Get(value.allOf)[1]

\* PropertiesList of variant 1: one element per entry, in the order of
\* Object.entries: <<key, heading, Available Options>>, the last one Null or
\* Some(the nested PropertiesList).
RECURSIVE PropertiesList(_, _)
PropertiesList(props, sub_heading) ==
    [i \in DOMAIN props |->
        <<props[i][1],
          IF sub_heading THEN "h3" ELSE "h2",
          IF firstFragmentHasProperties(props[i][2])
            THEN Some(PropertiesList(propertiesOf(mergeAllOf(props[i][2])), TRUE))
            ELSE Null>>]

\* PropertiesList of variant 2: one PropertyDetail per entry (level 1, so an
\* h3), never a nested list.
PropertiesList2(props) == [i \in DOMAIN props |-> <<props[i][1], "h3", Null>>]

\* The most entries of schema.properties.
MaxProperties == 2

TopKeys == {"alpha", "zeta"}

\* A sub-property that has an allOf of its own.
Z == [allOf |-> Some(<< [properties |-> << <<"a", X>> >>] >>)]

RenderFragments ==
    {Empty, [type |-> "string"], [properties |-> <<>>],
     [properties |-> << <<"a", X>> >>], [properties |-> << <<"b", Z>> >>],
     [allOf |-> Some(<< [properties |-> << <<"a", Y>> >>] >>)]}

RenderValues ==
    {[type |-> "string"], [properties |-> << <<"a", X>> >>]}
    \cup {[allOf |-> Some(fs)] : fs \in SeqsUpTo(RenderFragments, MaxFragments)}

Schemas ==
    {ps \in SeqsUpTo(TopKeys \X RenderValues, MaxProperties) :
        \A i, j \in DOMAIN ps : i # j => ps[i][1] # ps[j][1]}

InitRender ==
    variant \in {1, 2} /\ properties \in Schemas /\ toc = Null /\ sections = Null

\* <SchemaToc schema={schema} />
RenderToc ==
    /\ toc = Null
    /\ toc' = Some(SchemaToc(properties))
    /\ UNCHANGED <<properties, sections>>
    /\ UNCHANGED <<loaderVars, flatVars, exampleVars>>

\* <PropertiesList properties={schema.properties} />
RenderList ==
    /\ sections = Null
    /\ sections' = Some(IF variant = 1 THEN PropertiesList(properties, FALSE)
                        ELSE PropertiesList2(properties))
    /\ UNCHANGED <<properties, toc>>
    /\ UNCHANGED <<loaderVars, flatVars, exampleVars>>

NextRender == RenderToc \/ RenderList

(***************************************************************************)
(* Claims about the rendering, checked under SpecRender.                   *)
(***************************************************************************)

\* key1 < key2, lexicographically by code units.
KeyLess(k1, k2) == Less(CodeUnits(k1), CodeUnits(k2))

\* The elements of a rendered list, and of every list nested in it, are in
\* ascending order of their keys.
RECURSIVE InKeyOrder(_)
InKeyOrder(nodes) ==
    /\ \A i, j \in DOMAIN nodes : i < j => KeyLess(nodes[i][1], nodes[j][1])
    /\ \A i \in DOMAIN nodes : nodes[i][3] # Null => InKeyOrder(Get(nodes[i][3]))

\* C7: the sections PropertiesList renders are in lexicographic order of
\* their keys, which is the order of the table of contents, at the top level
\* and inside every "Available Options" section.
C7_SectionsInKeyOrder ==
    (toc # Null /\ sections # Null) =>
        /\ [i \in DOMAIN Get(sections) |-> Get(sections)[i][1]] = Get(toc)
        /\ InKeyOrder(Get(sections))

\* Every element of a rendered list has an "Available Options" section
\* exactly when the flattened property has a properties map that is not
\* empty, and so in every nested list.
RECURSIVE OptionsWhenProperties(_, _)
OptionsWhenProperties(props, nodes) ==
    \A i \in DOMAIN props :
        LET sub == propertiesOf(mergeAllOf(props[i][2]))
        IN /\ nodes[i][3] # Null <=> sub # <<>>
           /\ nodes[i][3] # Null => OptionsWhenProperties(sub, Get(nodes[i][3]))

\* C8: PropertiesList (variant 1) emits "Available Options" for a property if
\* and only if mergeAllOf of it has a non-empty properties map, whichever
\* fragment brings the keys; it never emits an empty section.
C8_OptionsIffFlattenedProperties ==
    (variant = 1 /\ sections # Null) =>
        OptionsWhenProperties(properties, Get(sections))

(***************************************************************************)
(* MarkdownCodeSeparator, parseContent and the examples block of           *)
(* PropertyContent.  A string is the sequence of its characters.           *)
(***************************************************************************)

\* The character U+0060, which a string of the module cannot hold.
Backtick == "U+0060"

Fence == <<Backtick, Backtick, Backtick>>

YamlFence == Fence \o <<"y", "a", "m", "l">>

\* \s and String.prototype.trim: the white space of the model.
IsSpace(c) == c \in {" ", "\n", "\t"}

StartsWith(text, pat) ==
    Len(text) >= Len(pat) /\ SubSeq(text, 1, Len(pat)) = pat

\* The first index >= from at which pat occurs in s, 0 when there is none.
IndexOf(s, pat, from) ==
    LET hits == {i \in from..(Len(s) - Len(pat) + 1) :
                    SubSeq(s, i, i + Len(pat) - 1) = pat}
    IN IF hits = {} THEN 0 ELSE Min(hits)

\* input.match(codeRegex): the first yaml fence that a fence follows, up to
\* the nearest such fence ([\s\S]*? takes as little as it can); Null when
\* nothing matches.
codeRegex(input) ==
    LET open == IndexOf(input, YamlFence, 1)
        close == IF open = 0 THEN 0
                 ELSE IndexOf(input, Fence, open + Len(YamlFence))
    IN IF close = 0 THEN Null
       ELSE Some([first |-> open, last |-> close + Len(Fence) - 1])

\* text.replace(/(yaml fence)|(fence)/g, "")
RECURSIVE removeFences(_)
removeFences(text) ==
    IF text = <<>> THEN <<>>
    ELSE IF StartsWith(text, YamlFence)
      THEN removeFences(SubSeq(text, Len(YamlFence) + 1, Len(text)))
    ELSE IF StartsWith(text, Fence)
      THEN removeFences(SubSeq(text, Len(Fence) + 1, Len(text)))
    ELSE <<Head(text)>> \o removeFences(Tail(text))

\* text.trim()
trim(text) ==
    LET ink == {i \in DOMAIN text : ~IsSpace(text[i])}
    IN IF ink = {} THEN <<>> ELSE SubSeq(text, Min(ink), Max(ink))

\* text.split('\n')
RECURSIVE split(_)
split(text) ==
    LET nl == IndexOf(text, <<"\n">>, 1)
    IN IF nl = 0 THEN <<text>>
       ELSE <<SubSeq(text, 1, nl - 1)>> \o split(SubSeq(text, nl + 1, Len(text)))

\* lines.join('\n')
RECURSIVE join(_)
join(lines) ==
    IF lines = <<>> THEN <<>>
    ELSE IF Len(lines) = 1 THEN lines[1]
    ELSE lines[1] \o <<"\n">> \o join(Tail(lines))

\* line.search(/\S/): the 0-based index of the first character that is no
\* white space, -1 when there is none.
search(line) ==
    LET ink == {i \in DOMAIN line : ~IsSpace(line[i])}
    IN IF ink = {} THEN -1 ELSE Min(ink) - 1

\* The reduce of lines 191-192 over the lines that trim() leaves non-empty,
\* from Infinity: Null stands for Infinity.
minIndentation(lines) ==
    LET found == {search(lines[i]) : i \in {j \in DOMAIN lines : trim(lines[j]) # <<>>}}
    IN IF found = {} THEN Null ELSE Some(Min(found))

\* line.substring(start): from Infinity, or past the end, the empty string.
substring(line, start) ==
    IF start = Null THEN <<>> ELSE SubSeq(line, Get(start) + 1, Len(line))

\* parseContent(input) for a string: <<briefing, codeBlock>>.
parseContent(input) ==
    LET codeMatch == codeRegex(input)
        stripped == trim(removeFences(SubSeq(input, Get(codeMatch).first,
                                             Get(codeMatch).last)))
        lines == split(stripped)
        codeBlock ==
            IF codeMatch = Null THEN <<>>
            ELSE join([i \in DOMAIN lines |->
                           substring(lines[i], minIndentation(lines))])
        briefing ==
            IF codeMatch = Null THEN trim(input)
            ELSE trim(SubSeq(input, 1, Get(codeMatch).first - 1)
                      \o SubSeq(input, Get(codeMatch).last + 1, Len(input)))
    IN <<briefing, codeBlock>>

\* The values of property.examples: what kind of value, and the strings of
\* an array.
Value(kind, items) == [kind |-> kind, items |-> items]

\* property.examples && ...
truthy(value) == value.kind \in {"string", "object", "array"}

\* What the examples block renders to.
Rendered(kind, tabs, selected, panes) ==
    [kind |-> kind, tabs |-> tabs, selected |-> selected, panes |-> panes]

\* MarkdownCodeSeparator({ examples }).  With one element or none it calls
\* parseContent(examples[0]); examples[0] of an empty array is undefined and
\* input.match of undefined throws a TypeError.
MarkdownCodeSeparator(value) ==
    IF value.kind # "array"
      THEN Rendered("No examples provided", <<>>, Null, <<>>)
    ELSE IF Len(value.items) > 1
      THEN Rendered("Tabs",
                    [i \in DOMAIN value.items |->
                        [label |-> <<"Example", (i - 1) + 1>>,
                         value |-> <<"example", i - 1>>]],
                    Some(<<"example", 0>>),
                    [i \in DOMAIN value.items |-> parseContent(value.items[i])])
    ELSE IF value.items = <<>>
      THEN Rendered("TypeError", <<>>, Null, <<>>)
    ELSE Rendered("div", <<>>, Null, <<parseContent(value.items[1])>>)

\* PropertyContent, lines 300-304.
examplesBlock(value) ==
    IF truthy(value) THEN MarkdownCodeSeparator(value)
    ELSE Rendered("nothing", <<>>, Null, <<>>)

(***************************************************************************)
(* The example strings of the model.                                       *)
(***************************************************************************)

\* The most lines inside a fenced block.
MaxLines == 2

\* The most examples of a property.
MaxExamples == 2

Indents == {0, 2, 4}

Foo == <<"f", "o", "o", ":", " ", "1">>

Bar == <<"b", "a", "r", ":", " ", "2">>

Intro == <<"I", "n", "t", "r", "o", " ", "t", "e", "x", "t", ".">>

Spaces(n) == [i \in 1..n |-> " "]

\* A line of a block: empty, or a text behind some spaces.
Lines == {<<>>} \cup {Spaces(n) \o t : n \in Indents, t \in {Foo, Bar}}

\* intro, then the fenced block of the lines, each part on lines of its own.
Fenced(intro, lines) ==
    (IF intro = <<>> THEN <<>> ELSE intro \o <<"\n">>)
    \o YamlFence \o <<"\n">> \o join(lines) \o <<"\n">> \o Fence

ExampleStrings ==
    {Intro, Foo}
    \cup {Fenced(intro, lines) : intro \in {<<>>, Intro},
                                 lines \in SeqsUpTo(Lines, MaxLines)}

ExamplesValues ==
    {Value(k, <<>>) : k \in {"undefined", "null", "empty string", "string", "object"}}
    \cup {Value("array", items) : items \in SeqsUpTo(ExampleStrings, MaxExamples)}

InitExamples == variant = 1 /\ examples \in ExamplesValues /\ block = Null

\* PropertyContent renders the examples of the property.
RenderExamples ==
    /\ block = Null
    /\ block' = Some(examplesBlock(examples))
    /\ UNCHANGED examples
    /\ UNCHANGED <<loaderVars, flatVars, renderVars>>

NextExamples == RenderExamples

(***************************************************************************)
(* Claims about the examples, checked under SpecExamples.                  *)
(***************************************************************************)

\* The white space a line starts with.
Indentation(line) == IF search(line) = -1 THEN Len(line) ELSE search(line)

\* The text between the fences with the least indentation of its non-blank
\* lines removed from every line; the blank lines next to the fences are no
\* lines of the block.
Dedent(inner) ==
    LET all == split(inner)
        ink == {i \in DOMAIN all : trim(all[i]) # <<>>}
        lines == IF ink = {} THEN <<>> ELSE SubSeq(all, Min(ink), Max(ink))
        least == Min({Indentation(all[i]) : i \in ink})
    IN join([i \in DOMAIN lines |->
                IF Len(lines[i]) <= least THEN <<>>
                ELSE SubSeq(lines[i], least + 1, Len(lines[i]))])

\* <<commentary, code>> of an example string as the claim states them.
Split(input) ==
    LET m == codeRegex(input)
    IN IF m = Null THEN <<input, <<>>>>
       ELSE <<trim(SubSeq(input, 1, Get(m).first - 1)
                   \o SubSeq(input, Get(m).last + 1, Len(input))),
              Dedent(SubSeq(input, Get(m).first + Len(YamlFence),
                            Get(m).last - Len(Fence)))>>

\* "Intro text.\n(yaml fence)\n  foo: 1\n    bar: 2\n(fence)"
SplitExample == Fenced(Intro, <<Spaces(2) \o Foo, Spaces(4) \o Bar>>)

\* C9: parseContent returns as code the text of the first yaml block with
\* the least common indentation of all its non-blank lines removed (relative
\* indentation kept), and as commentary the string without the block; the
\* example of the specification gives "foo: 1\n  bar: 2" and "Intro text.".
C9_ParseContentDedents ==
    (block # Null /\ Get(block).kind \in {"div", "Tabs"}) =>
        /\ \A i \in DOMAIN examples.items :
               Get(block).panes[i] = Split(examples.items[i])
        /\ \A i \in DOMAIN examples.items :
               examples.items[i] = SplitExample =>
                   Get(block).panes[i] =
                       <<Intro, Foo \o <<"\n">> \o Spaces(2) \o Bar>>

\* C10: rendering the examples never fails; a value that is no array gives
\* the placeholder, one example gives one block without tabs, N > 1 examples
\* give N tabs "Example 1" .. "Example N", the first one selected.
C10_ExamplesMultiplicity ==
    block # Null =>
        LET b == Get(block)
            n == Len(examples.items)
        IN /\ b.kind # "TypeError"
           /\ examples.kind \notin {"array", "undefined"} =>
                  b.kind = "No examples provided"
           /\ (examples.kind = "array" /\ n = 1) =>
                  b.kind = "div" /\ b.tabs = <<>> /\ Len(b.panes) = 1
           /\ (examples.kind = "array" /\ n > 1) =>
                  /\ b.kind = "Tabs"
                  /\ Len(b.panes) = n
                  /\ b.tabs = [i \in 1..n |-> [label |-> <<"Example", i>>,
                                               value |-> <<"example", i - 1>>]]
                  /\ b.selected = Some(b.tabs[1].value)

(***************************************************************************)
(* Claims about the loader, checked under Spec.                            *)
(***************************************************************************)

\* What the resolver can give for the documents of the model.
ResolvedSchemas == {Resolved(d) : d \in RawDocs \cup {JSONSchema}}

\* C1: the component shows Loading first and changes once, to Error or to
\* Ready with the resolved schema: when the loader is done it has left
\* Loading, nothing is rendered anew after the change, error and a resolved
\* schema are never both set, and Ready never shows a schema that is not the
\* resolver's output.
C1_LoadingThenOneOutcome ==
    /\ renders[1] = <<"Loading">>
    /\ pc = "done" => renders[Len(renders)][1] # "Loading"
    /\ \A i, j \in DOMAIN renders :
           (i < j /\ renders[i][1] # "Loading") => renders[j] = renders[i]
    /\ ~(error # Null /\ schema \in ResolvedSchemas)
    /\ \A i \in DOMAIN renders :
           renders[i][1] = "Ready" => renders[i][2] \in ResolvedSchemas

\* C2: no failure leaves useSchema uncaught, and after a failure the loader
\* ends with loading = false and the error set.
C2_FailuresBecomeError ==
    /\ uncaught = {}
    /\ (pc = "done" /\ err # Null) =>
           ~loading /\ error = err /\ renders[Len(renders)][1] = "Error"

\* C3: after a response with a non-success status the loader ends in Error,
\* never in Ready, with the status code in the message, whatever the body,
\* in both variants.
C3_HttpStatusBecomesError ==
    (pc = "done" /\ response # Null /\ ~ok(Get(response))) =>
        /\ ~loading /\ error # Null
        /\ renders[Len(renders)][1] = "Error"
        /\ \E w \in DOMAIN Get(error) :
               Get(error)[w] = StatusString(Get(response).status)

(***************************************************************************)
(* The specifications.  Each one runs one part of the component and leaves *)
(* the variables of the other parts at rest.                               *)
(***************************************************************************)

LoaderIdle ==
    /\ useLocal = FALSE /\ bound = TRUE /\ pc = "idle"
    /\ schema = defaultSchema(1) /\ loading = TRUE /\ error = Null
    /\ response = Null /\ json = Null /\ uncaught = {} /\ err = Null
    /\ logged = <<>> /\ renders = <<>>

FlattenIdle == property = Empty /\ flat = Null /\ again = Null

RenderIdle == properties = <<>> /\ toc = Null /\ sections = Null

ExamplesIdle == examples = Value("undefined", <<>>) /\ block = Null

NextLoader ==
    \/ EffectLocalUnbound
    \/ EffectLocalLoading
    \/ EffectLocalError
    \/ LocalResolved
    \/ LocalRejected
    \/ EffectFetch
    \/ FetchRejected
    \/ FetchFulfilled
    \/ JsonRejected
    \/ JsonFulfilled
    \/ ResolveFulfilled
    \/ ResolveRejected
    \/ Finally

Init == InitLoader /\ FlattenIdle /\ RenderIdle /\ ExamplesIdle

Spec == Init /\ [][NextLoader]_vars

InitSpecFlatten == LoaderIdle /\ InitFlatten /\ RenderIdle /\ ExamplesIdle

SpecFlatten == InitSpecFlatten /\ [][NextFlatten]_vars

InitSpecRender == LoaderIdle /\ FlattenIdle /\ InitRender /\ ExamplesIdle

SpecRender == InitSpecRender /\ [][NextRender]_vars

InitSpecExamples == LoaderIdle /\ FlattenIdle /\ RenderIdle /\ InitExamples

SpecExamples == InitSpecExamples /\ [][NextExamples]_vars

====
